---- MODULE Spec2Model ----
(***************************************************************************)
(* Model of f1-site/server.js: the year validator and the five             *)
(* year-parameterised Express handlers (calendar, drivers, constructors,   *)
(* driver standings, constructor standings).                               *)
(*                                                                         *)
(* A string is a sequence of one-character strings, so that parseInt and   *)
(* the regular expression /^\d{4}$/ are computed character by character.   *)
(* One request is in flight at a time: the handlers share nothing but the  *)
(* wall clock and the module-level constant F1_MAX_YEAR, which no handler  *)
(* writes.  Each action is one synchronous run of a handler between two     *)
(* awaits; the upstream's answer is the action's input.                    *)
(***************************************************************************)
EXTENDS Integers, Sequences, FiniteSets

VARIABLES
    now,              \* the wall clock's calendar year: new Date().getFullYear()
    F1_MAX_YEAR,      \* module constant, computed once when the module loads
    pc,               \* where the handler in flight is suspended
    endpoint,         \* the route that matched
    year,             \* req.params.year
    validation,       \* const validation = validateYear(year)
    ergastResponse,   \* status of the mandatory response, 0 before it arrives
    ergastData,       \* parsed mandatory body
    requestedYear,    \* the resolved year (line 114), 0 before it is computed
    openf1Response,   \* status of the optional response, 0 before it arrives
    openf1Error,      \* what the inner catch caught, "" if nothing
    openf1Data,       \* let openf1Data = null
    error,            \* what the outer catch caught, "" if nothing
    fetchLog,         \* the hosts fetch() was called on, in order, in this request
    res               \* the response sent: [status, body], status 0 before it is sent

vars == <<now, F1_MAX_YEAR, pc, endpoint, year, validation, ergastResponse,
          ergastData, requestedYear, openf1Response, openf1Error, openf1Data,
          error, fetchLog, res>>

----------------------------------------------------------------------------
(* Bounds of the model *)

\* longest token the validator is tried on
MaxLen == 5
\* how many times the calendar year may advance after the module has loaded
MaxTicks == 2
\* longest list (races, drivers, constructors, standings lists) an upstream returns
MaxItems == 2

\* the calendar years in which the process may be started
BootYears == {2022, 2023}

----------------------------------------------------------------------------
(* Program constants *)

OPENF1_MIN_YEAR == 2023
F1_MIN_YEAR == 1950

----------------------------------------------------------------------------
(* Strings *)

AsciiDigits == {"0", "1", "2", "3", "4", "5", "6", "7", "8", "9"}
WhiteSpace == {" "}
CURRENT == <<"c", "u", "r", "r", "e", "n", "t">>

DigitValue(c) ==
    CASE c = "0" -> 0 [] c = "1" -> 1 [] c = "2" -> 2 [] c = "3" -> 3
      [] c = "4" -> 4 [] c = "5" -> 5 [] c = "6" -> 6 [] c = "7" -> 7
      [] c = "8" -> 8 [] c = "9" -> 9

DigitChar(d) ==
    CASE d = 0 -> "0" [] d = 1 -> "1" [] d = 2 -> "2" [] d = 3 -> "3"
      [] d = 4 -> "4" [] d = 5 -> "5" [] d = 6 -> "6" [] d = 7 -> "7"
      [] d = 8 -> "8" [] d = 9 -> "9"

\* the path segment a client writes for the four-digit year y
YearToken(y) ==
    <<DigitChar(y \div 1000), DigitChar((y \div 100) % 10),
      DigitChar((y \div 10) % 10), DigitChar(y % 10)>>

RECURSIVE TrimStart(_)
TrimStart(s) ==
    IF s # <<>> /\ Head(s) \in WhiteSpace THEN TrimStart(Tail(s)) ELSE s

RECURSIVE DigitPrefix(_)
DigitPrefix(s) ==
    IF s # <<>> /\ Head(s) \in AsciiDigits
    THEN <<Head(s)>> \o DigitPrefix(Tail(s))
    ELSE <<>>

RECURSIVE MathInt(_, _)
MathInt(ds, acc) ==
    IF ds = <<>> THEN acc ELSE MathInt(Tail(ds), acc * 10 + DigitValue(Head(ds)))

\* parseInt(string, 10): leading white space is skipped, one sign is read, and
\* the longest prefix of decimal digits is the number; no digit gives NaN.
parseInt(s) ==
    LET t == TrimStart(s)
        neg == t # <<>> /\ Head(t) = "-"
        u == IF t # <<>> /\ Head(t) \in {"-", "+"} THEN Tail(t) ELSE t
        z == DigitPrefix(u)
    IN  IF z = <<>>
        THEN [nan |-> TRUE, val |-> 0]
        ELSE [nan |-> FALSE, val |-> IF neg THEN 0 - MathInt(z, 0) ELSE MathInt(z, 0)]

isNaN(n) == n.nan

\* /^\d{4}$/.test(s): no flag is set, so \d is [0-9] and $ is the end of input
TestFourDigits(s) ==
    /\ Len(s) = 4
    /\ \A i \in 1..4 : s[i] \in AsciiDigits

----------------------------------------------------------------------------
(* validateYear *)

\* the messages are written without their accents; RangeError is the template
\* literal's parts, so that it carries the two bounds it prints
FormatError == <<"Ano invalido. Use um ano de 4 digitos ou \"current\".">>
RangeError == <<"Ano deve estar entre ", F1_MIN_YEAR, " e ", F1_MAX_YEAR, ".">>

\* { valid: true } carries no error: the empty message stands for undefined
Valid == [valid |-> TRUE, error |-> <<>>]
Invalid(msg) == [valid |-> FALSE, error |-> msg]

\* the validator with the pattern test left out
validateYear_noPattern(token) ==
    IF token = CURRENT THEN Valid
    ELSE LET yearNum == parseInt(token)
         IN  IF isNaN(yearNum) THEN Invalid(FormatError)
             ELSE IF yearNum.val < F1_MIN_YEAR \/ yearNum.val > F1_MAX_YEAR
                  THEN Invalid(RangeError)
                  ELSE Valid

validateYear(token) ==
    IF token = CURRENT THEN Valid
    ELSE LET yearNum == parseInt(token)
         IN  IF isNaN(yearNum) \/ ~TestFourDigits(token) THEN Invalid(FormatError)
             ELSE IF yearNum.val < F1_MIN_YEAR \/ yearNum.val > F1_MAX_YEAR
                  THEN Invalid(RangeError)
                  ELSE Valid

----------------------------------------------------------------------------
(* Upstream answers: the inputs of the handlers *)

\* the status codes an upstream answers with; response.ok is 200..299
UpstreamStatuses == {200, 201, 404, 429, 500, 503}
ok(status) == status >= 200 /\ status <= 299

\* error.message of what fetch() throws, and of what response.json() throws
TransportErrors == {"fetch failed"}
ParseErrors == {"Unexpected token < in JSON at position 0"}
TypeErrorMessage == "Cannot read properties of undefined"

\* null, and the undefined of a field that is absent
NULL == <<>>

\* A list an upstream returns: element i is the record of round i; wellFormed
\* says whether the nested objects the mapping dereferences are there
\* (race.Circuit.Location, standingsList.DriverStandings, ...).
ItemLists ==
    UNION { { [i \in 1..n |-> [round |-> i, wellFormed |-> f[i]]] :
              f \in [1..n -> BOOLEAN] } : n \in 0..MaxItems }

\* A parsed mandatory body, by the containers on the path the handler reads:
\* MRData, then the table (RaceTable, DriverTable, ConstructorTable,
\* StandingsTable), then the list (Races, Drivers, Constructors, StandingsLists).
NoData == [parsed |-> FALSE, MRData |-> FALSE, Table |-> FALSE, hasList |-> FALSE,
           List |-> <<>>]
ErgastPayloads ==
    { [parsed |-> TRUE, MRData |-> FALSE, Table |-> FALSE, hasList |-> FALSE, List |-> <<>>],
      [parsed |-> TRUE, MRData |-> TRUE, Table |-> FALSE, hasList |-> FALSE, List |-> <<>>],
      [parsed |-> TRUE, MRData |-> TRUE, Table |-> TRUE, hasList |-> FALSE, List |-> <<>>] }
    \cup { [parsed |-> TRUE, MRData |-> TRUE, Table |-> TRUE, hasList |-> TRUE, List |-> l] :
           l \in ItemLists }

\* the optional upstream's parsed body, passed through as it is
OpenF1Payloads == { <<"meetings">> }

----------------------------------------------------------------------------
(* Requests *)

Endpoints == {"calendar", "drivers", "constructors", "driverStandings",
              "constructorStandings"}

\* the tokens requests are made with: the sentinel, the years around each bound
\* the handlers compare with, and tokens that are no four-digit year
RequestTokens ==
    {CURRENT}
    \cup { YearToken(y) : y \in {F1_MIN_YEAR - 1, F1_MIN_YEAR} }
    \cup { YearToken(y) : y \in (OPENF1_MIN_YEAR - 2)..(OPENF1_MIN_YEAR + MaxTicks + 2) }
    \cup { <<"9", "9">>, <<"2", "0", "2", "4", "5">>, <<"a", "b", "c", "d">>,
           <<" ", "2", "0", "2", "3">>, <<"2", "0", "2", "3", "a">> }

\* encodeURIComponent: letters and digits stay, anything else is escaped
encodeURIComponent(s) ==
    [i \in 1..Len(s) |->
        IF s[i] \in AsciiDigits \cup {"a", "b", "c", "d", "e", "n", "r", "t", "u"}
        THEN s[i] ELSE "%"]

Resource(e) ==
    CASE e = "calendar" -> ".json"
      [] e = "drivers" -> "/drivers.json"
      [] e = "constructors" -> "/constructors.json"
      [] e = "driverStandings" -> "/driverStandings.json"
      [] e = "constructorStandings" -> "/constructorStandings.json"

\* a URL is the tuple of the parts its template literal joins
ErgastUrl(e, token) == <<"https://ergast.com/api/f1/", encodeURIComponent(token), Resource(e)>>
OpenF1Url(y) == <<"https://api.openf1.org/v1/meetings?year=", y>>

----------------------------------------------------------------------------
(* Responses *)

NoResponse == [status |-> 0, body |-> NULL]

\* res.status(status).json(body); res.json(body) alone answers 200
Send(status, body) == [status |-> status, body |-> body]

\* a rejection that answers 500 and drops the validator's message
RejectYear_asServerError(v) ==
    Send(500, [error |-> <<"Erro interno do servidor">>])

RejectYear(v) == Send(400, [error |-> v.error])

UpstreamErrorText(e) ==
    CASE e = "calendar" -> "Erro ao buscar dados da Ergast API"
      [] e = "drivers" -> "Erro ao buscar dados dos pilotos"
      [] e = "constructors" -> "Erro ao buscar dados das equipes"
      [] e = "driverStandings" -> "Erro ao buscar classificacao de pilotos"
      [] e = "constructorStandings" -> "Erro ao buscar classificacao de construtores"

\* an upstream failure answered as a bad gateway whatever the upstream said
UpstreamError_asBadGateway(e, status) ==
    Send(502, [error |-> UpstreamErrorText(e), status |-> status])

UpstreamError(e, status) ==
    Send(status, [error |-> UpstreamErrorText(e), status |-> status])

\* the catch block answering like the no-data branch, without the message
InternalError_asNotFound(message) ==
    Send(404, [error |-> "Erro interno do servidor"])

\* the catch block of every handler
InternalError(message) ==
    Send(500, [error |-> "Erro interno do servidor", message |-> message])

NoRaces(token) ==
    Send(404, [error |-> "Nenhuma corrida encontrada para este ano", year |-> token])

NoStandings ==
    Send(404, [error |-> "Classificacao nao disponivel para este ano"])

\* the mapping of one upstream record
Shape(item) == [round |-> item.round]
Map(list) == [i \in 1..Len(list) |-> Shape(list[i])]
Throws(list) == \E i \in 1..Len(list) : ~list[i].wellFormed

\* the gate of the optional fetch, decided on the clock instead of the request
NeedsOpenF1_byClock(y) == now >= OPENF1_MIN_YEAR

NeedsOpenF1(y) == y >= OPENF1_MIN_YEAR

CalendarBody(token, list, y, data) ==
    [calendar |-> [totalRaces |-> Len(Map(list)), races |-> Map(list)],
     openf1Data |-> data,
     sources |-> [ergast |-> ErgastUrl("calendar", token),
                  openf1 |-> IF NeedsOpenF1(y) THEN OpenF1Url(y) ELSE NULL]]

ListBody(list) == [total |-> Len(Map(list)), items |-> Map(list)]

StandingsBody(list) == [round |-> list[1].round, standings |-> <<>>]

----------------------------------------------------------------------------
(* The process *)

Idle ==
    /\ pc = "idle"
    /\ endpoint = "none"
    /\ year = <<>>
    /\ validation = Valid
    /\ ergastResponse = 0
    /\ ergastData = NoData
    /\ requestedYear = 0
    /\ openf1Response = 0
    /\ openf1Error = ""
    /\ openf1Data = NULL
    /\ error = ""
    /\ fetchLog = <<>>
    /\ res = NoResponse

\* the module loads: F1_MAX_YEAR = new Date().getFullYear() + 1
Init ==
    /\ now \in BootYears
    /\ F1_MAX_YEAR = now + 1
    /\ Idle

\* the calendar year advances while the process runs
Tick ==
    /\ now < (F1_MAX_YEAR - 1) + MaxTicks
    /\ now' = now + 1
    /\ UNCHANGED <<F1_MAX_YEAR, pc, endpoint, year, validation, ergastResponse,
                   ergastData, requestedYear, openf1Response, openf1Error,
                   openf1Data, error, fetchLog, res>>

\* A request arrives, once the one before it has been answered. The handler
\* validates the year and either answers 400 or calls fetch on the mandatory
\* source and suspends.
Receive(e, token) ==
    /\ pc \in {"idle", "done"}
    /\ endpoint' = e
    /\ year' = token
    /\ validation' = validateYear(token)
    /\ ergastResponse' = 0
    /\ ergastData' = NoData
    /\ requestedYear' = 0
    /\ openf1Response' = 0
    /\ openf1Error' = ""
    /\ openf1Data' = NULL
    /\ error' = ""
    /\ IF ~validation'.valid
       THEN /\ res' = RejectYear(validation')
            /\ fetchLog' = <<>>
            /\ pc' = "done"
       ELSE /\ res' = NoResponse
            /\ fetchLog' = <<ErgastUrl(e, token)>>
            /\ pc' = "awaitErgastFetch"
    /\ UNCHANGED <<now, F1_MAX_YEAR>>

\* the outer catch block: the request ends with what InternalError sends
Catch(message) ==
    /\ error' = message
    /\ res' = InternalError(message)
    /\ pc' = "done"

\* await fetch(ergastUrl) rejects
ErgastFetchThrows(message) ==
    /\ pc = "awaitErgastFetch"
    /\ Catch(message)
    /\ UNCHANGED <<now, F1_MAX_YEAR, endpoint, year, validation, ergastResponse,
                   ergastData, requestedYear, openf1Response, openf1Error,
                   openf1Data, fetchLog>>

\* the handler going on to read the body of a response that is not ok
ErgastFetchResponds_noReturn(status) ==
    /\ pc = "awaitErgastFetch"
    /\ ergastResponse' = status
    /\ res' = IF ok(status) THEN res ELSE UpstreamError(endpoint, status)
    /\ pc' = "awaitErgastJson"
    /\ UNCHANGED <<now, F1_MAX_YEAR, endpoint, year, validation, ergastData,
                   requestedYear, openf1Response, openf1Error, openf1Data, error,
                   fetchLog>>

\* await fetch(ergastUrl) resolves: a response that is not ok ends the request
\* with the upstream's status, an ok one is read as JSON
ErgastFetchResponds(status) ==
    /\ pc = "awaitErgastFetch"
    /\ ergastResponse' = status
    /\ IF ~ok(status)
       THEN /\ res' = UpstreamError(endpoint, status)
            /\ pc' = "done"
       ELSE /\ res' = res
            /\ pc' = "awaitErgastJson"
    /\ UNCHANGED <<now, F1_MAX_YEAR, endpoint, year, validation, ergastData,
                   requestedYear, openf1Response, openf1Error, openf1Data, error,
                   fetchLog>>

\* await response.json() rejects: the body is no JSON
ErgastJsonThrows(message) ==
    /\ pc = "awaitErgastJson"
    /\ Catch(message)
    /\ UNCHANGED <<now, F1_MAX_YEAR, endpoint, year, validation, ergastResponse,
                   ergastData, requestedYear, openf1Response, openf1Error,
                   openf1Data, fetchLog>>

\* the calendar handler from the parsed body to the optional fetch or the answer
CalendarParsed(data) ==
    /\ pc = "awaitErgastJson"
    /\ endpoint = "calendar"
    /\ ergastData' = data
    /\ IF ~data.MRData
       THEN \* mrData is undefined: mrData.RaceTable throws
            /\ Catch(TypeErrorMessage)
            /\ UNCHANGED <<requestedYear, fetchLog>>
       ELSE IF ~data.Table \/ ~data.hasList
       THEN /\ res' = NoRaces(year)
            /\ pc' = "done"
            /\ UNCHANGED <<requestedYear, error, fetchLog>>
       ELSE IF Throws(data.List)
       THEN /\ Catch(TypeErrorMessage)
            /\ UNCHANGED <<requestedYear, fetchLog>>
       ELSE LET currentYear == now
                resolved == IF year = CURRENT THEN currentYear ELSE parseInt(year).val
            IN  /\ requestedYear' = resolved
                /\ error' = error
                /\ IF NeedsOpenF1(resolved)
                   THEN /\ fetchLog' = Append(fetchLog, OpenF1Url(resolved))
                        /\ res' = res
                        /\ pc' = "awaitOpenF1Fetch"
                   ELSE /\ fetchLog' = fetchLog
                        /\ res' = Send(200, CalendarBody(year, data.List, resolved, openf1Data))
                        /\ pc' = "done"
    /\ UNCHANGED <<now, F1_MAX_YEAR, endpoint, year, validation, ergastResponse,
                   openf1Response, openf1Error, openf1Data>>

\* the drivers and the constructors handler from the parsed body to the answer
ListParsed(data) ==
    /\ pc = "awaitErgastJson"
    /\ endpoint \in {"drivers", "constructors"}
    /\ ergastData' = data
    /\ IF ~data.MRData \/ ~data.Table \/ ~data.hasList \/ Throws(data.List)
       THEN Catch(TypeErrorMessage)
       ELSE /\ res' = Send(200, ListBody(data.List))
            /\ pc' = "done"
            /\ error' = error
    /\ UNCHANGED <<now, F1_MAX_YEAR, endpoint, year, validation, ergastResponse,
                   requestedYear, openf1Response, openf1Error, openf1Data, fetchLog>>

\* the two standings handlers from the parsed body to the answer
StandingsParsed(data) ==
    /\ pc = "awaitErgastJson"
    /\ endpoint \in {"driverStandings", "constructorStandings"}
    /\ ergastData' = data
    /\ IF ~data.MRData \/ ~data.Table \/ ~data.hasList \/ Len(data.List) = 0
       THEN /\ res' = NoStandings
            /\ pc' = "done"
            /\ error' = error
       ELSE IF ~data.List[1].wellFormed
       THEN Catch(TypeErrorMessage)
       ELSE /\ res' = Send(200, StandingsBody(data.List))
            /\ pc' = "done"
            /\ error' = error
    /\ UNCHANGED <<now, F1_MAX_YEAR, endpoint, year, validation, ergastResponse,
                   requestedYear, openf1Response, openf1Error, openf1Data, fetchLog>>

\* the end of the calendar handler: res.json({ calendar, openf1Data, sources })
Respond(data) ==
    /\ res' = Send(200, CalendarBody(year, ergastData.List, requestedYear, data))
    /\ pc' = "done"

\* a rejected optional fetch reaching the outer catch
OpenF1FetchThrows_uncaught(message) ==
    /\ pc = "awaitOpenF1Fetch"
    /\ openf1Error' = message
    /\ Catch(message)
    /\ UNCHANGED <<now, F1_MAX_YEAR, endpoint, year, validation, ergastResponse,
                   ergastData, requestedYear, openf1Response, openf1Data, fetchLog>>

\* await fetch(openf1Url) rejects: the inner catch logs it and the handler answers
OpenF1FetchThrows(message) ==
    /\ pc = "awaitOpenF1Fetch"
    /\ openf1Error' = message
    /\ Respond(openf1Data)
    /\ UNCHANGED <<now, F1_MAX_YEAR, endpoint, year, validation, ergastResponse,
                   ergastData, requestedYear, openf1Response, openf1Data, error,
                   fetchLog>>

\* await fetch(openf1Url) resolves: a response that is not ok is skipped
OpenF1FetchResponds(status) ==
    /\ pc = "awaitOpenF1Fetch"
    /\ openf1Response' = status
    /\ IF ok(status)
       THEN /\ pc' = "awaitOpenF1Json"
            /\ res' = res
       ELSE Respond(openf1Data)
    /\ UNCHANGED <<now, F1_MAX_YEAR, endpoint, year, validation, ergastResponse,
                   ergastData, requestedYear, openf1Error, openf1Data, error,
                   fetchLog>>

\* await openf1Response.json() rejects: the inner catch logs it
OpenF1JsonThrows(message) ==
    /\ pc = "awaitOpenF1Json"
    /\ openf1Error' = message
    /\ Respond(openf1Data)
    /\ UNCHANGED <<now, F1_MAX_YEAR, endpoint, year, validation, ergastResponse,
                   ergastData, requestedYear, openf1Response, openf1Data, error,
                   fetchLog>>

\* await openf1Response.json() resolves
OpenF1JsonParsed(data) ==
    /\ pc = "awaitOpenF1Json"
    /\ openf1Data' = data
    /\ Respond(data)
    /\ UNCHANGED <<now, F1_MAX_YEAR, endpoint, year, validation, ergastResponse,
                   ergastData, requestedYear, openf1Response, openf1Error, error,
                   fetchLog>>

Next ==
    \/ Tick
    \/ \E e \in Endpoints, token \in RequestTokens : Receive(e, token)
    \/ \E m \in TransportErrors : ErgastFetchThrows(m)
    \/ \E s \in UpstreamStatuses : ErgastFetchResponds(s)
    \/ \E m \in ParseErrors : ErgastJsonThrows(m)
    \/ \E d \in ErgastPayloads : CalendarParsed(d)
    \/ \E d \in ErgastPayloads : ListParsed(d)
    \/ \E d \in ErgastPayloads : StandingsParsed(d)
    \/ \E m \in TransportErrors : OpenF1FetchThrows(m)
    \/ \E s \in UpstreamStatuses : OpenF1FetchResponds(s)
    \/ \E m \in ParseErrors : OpenF1JsonThrows(m)
    \/ \E d \in OpenF1Payloads : OpenF1JsonParsed(d)

Spec == Init /\ [][Next]_vars

----------------------------------------------------------------------------
(* validateYear on its own: every token up to MaxLen characters *)

\* the characters tokens are drawn from: the digits of the years around both
\* bounds, a white space character, a sign and a letter
TokenChars == {"0", "1", "2", "4", "5", "9", " ", "-", "a"}

AllTokens ==
    {CURRENT} \cup UNION { [1..n -> TokenChars] : n \in 0..MaxLen }

InitValidate ==
    /\ now \in BootYears
    /\ F1_MAX_YEAR = now + 1
    /\ pc = "call"
    /\ endpoint = "none"
    /\ year \in AllTokens
    /\ validation = Valid
    /\ ergastResponse = 0
    /\ ergastData = NoData
    /\ requestedYear = 0
    /\ openf1Response = 0
    /\ openf1Error = ""
    /\ openf1Data = NULL
    /\ error = ""
    /\ fetchLog = <<>>
    /\ res = NoResponse

CallValidateYear ==
    /\ pc = "call"
    /\ validation' = validateYear(year)
    /\ pc' = "returned"
    /\ UNCHANGED <<now, F1_MAX_YEAR, endpoint, year, ergastResponse, ergastData,
                   requestedYear, openf1Response, openf1Error, openf1Data, error,
                   fetchLog, res>>

NextValidate == CallValidateYear

SpecValidate == InitValidate /\ [][NextValidate]_vars

----------------------------------------------------------------------------
(* C1 *)

\* what the claim calls a valid token, read off the token and not off parseInt
FourDigitValue(t) ==
    DigitValue(t[1]) * 1000 + DigitValue(t[2]) * 100 + DigitValue(t[3]) * 10
        + DigitValue(t[4])

ClaimedValid(t) ==
    \/ t = CURRENT
    \/ /\ Len(t) = 4
       /\ \A i \in 1..4 : t[i] \in AsciiDigits
       /\ FourDigitValue(t) >= 1950
       /\ FourDigitValue(t) <= F1_MAX_YEAR

\* C1: validateYear(t) is valid exactly when t is "current" or four ASCII digits
\* whose value lies in 1950..F1_MAX_YEAR, and every other token is invalid with
\* a non-empty error message.
C1_ValidateYearExact ==
    pc = "returned" =>
        /\ validation.valid <=> ClaimedValid(year)
        /\ ~validation.valid => Len(validation.error) > 0

\* a token with a four-digit year in it and a character too many is rejected
C1_Witness ==
    /\ pc = "returned"
    /\ year = <<"2", "0", "2", "4", "5">>
    /\ ~validation.valid

----------------------------------------------------------------------------
(* What the claims speak of *)

IsErgast(url) == Len(url) = 3 /\ url[1] = "https://ergast.com/api/f1/"
IsOpenF1(url) == Len(url) = 2 /\ url[1] = "https://api.openf1.org/v1/meetings?year="

\* how many times fetch was called on the mandatory and on the optional source
MandatoryCalls == Cardinality({i \in 1..Len(fetchLog) : IsErgast(fetchLog[i])})
OptionalCalls == Cardinality({i \in 1..Len(fetchLog) : IsOpenF1(fetchLog[i])})

InRequest == endpoint \in Endpoints
HasError == "error" \in DOMAIN res.body

\* the ways the optional fetch fails
OptionalNon2xx == openf1Response # 0 /\ ~ok(openf1Response)
OptionalThrew == openf1Response = 0 /\ openf1Error \in TransportErrors
OptionalUnparsable == ok(openf1Response) /\ openf1Error \in ParseErrors
OptionalFailed == OptionalNon2xx \/ OptionalThrew \/ OptionalUnparsable

\* the ways the mandatory fetch fails without a status to report
MandatoryThrew == InRequest /\ validation.valid /\ pc = "done" /\ ergastResponse = 0
MandatoryUnparsable ==
    InRequest /\ pc = "done" /\ ok(ergastResponse) /\ ~ergastData.parsed

----------------------------------------------------------------------------
(* C2 *)

\* C2: on each of the five endpoints a request whose year fails validateYear
\* is answered 400 with the validator's message, and ends there with no fetch
\* issued.
C2_InvalidYearIs400 ==
    (InRequest /\ ~validation.valid) =>
        /\ pc = "done"
        /\ res.status = 400
        /\ HasError
        /\ res.body.error = validation.error
        /\ Len(res.body.error) > 0
        /\ fetchLog = <<>>

C2_Witness ==
    /\ endpoint = "constructorStandings"
    /\ year = YearToken(F1_MIN_YEAR - 1)
    /\ res.status = 400
    /\ res.body.error = RangeError

----------------------------------------------------------------------------
(* C3 *)

\* C3: in a calendar request, however the optional fetch fails (a status that
\* is not 2xx, a rejected fetch, a body that is no JSON), the answer is 200,
\* totalRaces is the number of races in the answer and the number the mandatory
\* source returned, and openf1Data is there and null.
C3_OptionalFailureIs200 ==
    (endpoint = "calendar" /\ OptionalFailed) =>
        /\ pc = "done"
        /\ requestedYear >= 2023
        /\ ok(ergastResponse) /\ ergastData.hasList
        /\ res.status = 200
        /\ res.body.calendar.totalRaces = Len(res.body.calendar.races)
        /\ res.body.calendar.totalRaces = Len(ergastData.List)
        /\ "openf1Data" \in DOMAIN res.body
        /\ res.body.openf1Data = NULL

C3_Witness ==
    /\ endpoint = "calendar"
    /\ OptionalUnparsable
    /\ Len(ergastData.List) = 2
    /\ res.status = 200
    /\ res.body.calendar.totalRaces = 2

----------------------------------------------------------------------------
(* C4 *)

\* C4: in a calendar request whose resolved year is below 2023 (the parsed
\* integer of a four-digit token, the calendar year read by the handler for
\* "current") the optional fetch is never issued, and a 200 answer carries a
\* null openf1Data and a null sources.openf1.
C4_NoOptionalBelow2023 ==
    endpoint = "calendar" =>
        /\ (validation.valid /\ year # CURRENT /\ FourDigitValue(year) < 2023)
              => OptionalCalls = 0
        /\ (requestedYear # 0 /\ year # CURRENT) => requestedYear = FourDigitValue(year)
        /\ (requestedYear # 0 /\ year = CURRENT)
              => (requestedYear >= F1_MAX_YEAR - 1 /\ requestedYear <= now)
        /\ requestedYear < 2023 => OptionalCalls = 0
        /\ (requestedYear # 0 /\ requestedYear < 2023) =>
              /\ pc = "done"
              /\ res.status = 200
              /\ res.body.openf1Data = NULL
              /\ res.body.sources.openf1 = NULL

\* a request for 2022 answered in 2023, when "current" would be given the fetch
C4_Witness ==
    /\ endpoint = "calendar"
    /\ year = YearToken(2022)
    /\ now = 2023
    /\ requestedYear = 2022
    /\ res.status = 200
    /\ fetchLog = <<ErgastUrl("calendar", year)>>

----------------------------------------------------------------------------
(* C5 *)

\* C5: on every endpoint, a mandatory response with a status s that is not 2xx
\* is answered with status s and a body with an error field; on the calendar
\* endpoint the optional source is not asked, so its behaviour cannot matter.
C5_UpstreamStatusMirrored ==
    (InRequest /\ validation.valid /\ ergastResponse # 0 /\ ~ok(ergastResponse)) =>
        /\ pc = "done"
        /\ res.status = ergastResponse
        /\ HasError
        /\ OptionalCalls = 0

C5_Witness ==
    /\ endpoint = "calendar"
    /\ year = CURRENT
    /\ now >= 2023
    /\ ergastResponse = 404
    /\ res.status = 404
    /\ HasError

----------------------------------------------------------------------------
(* C6 *)

\* C6: on every endpoint, a mandatory fetch that throws, or a 2xx body that is
\* no JSON, is answered 500 with an error field and the failure's message.
C6_TransportOrParseIs500 ==
    /\ MandatoryThrew =>
          /\ res.status = 500 /\ HasError
          /\ "message" \in DOMAIN res.body /\ res.body.message \in TransportErrors
    /\ MandatoryUnparsable =>
          /\ res.status = 500 /\ HasError
          /\ "message" \in DOMAIN res.body /\ res.body.message \in ParseErrors

C6_Witness ==
    /\ endpoint = "drivers"
    /\ MandatoryUnparsable
    /\ res.status = 500
    /\ res.body.message \in ParseErrors

----------------------------------------------------------------------------
(* C7 *)

\* C7: a calendar request whose mandatory source answers 2xx with a payload in
\* which the race container is absent or the race list is empty is answered 404
\* with an error, so no 200 calendar answer has totalRaces = 0.
C7_EmptyCalendarIs404 ==
    /\ (/\ endpoint = "calendar" /\ pc = "done"
        /\ ergastData.parsed /\ ergastData.MRData
        /\ (~ergastData.Table \/ ~ergastData.hasList \/ Len(ergastData.List) = 0))
          => (res.status = 404 /\ HasError)
    /\ (endpoint = "calendar" /\ res.status = 200)
          => res.body.calendar.totalRaces # 0

----------------------------------------------------------------------------
(* C8 *)

\* C8: on the four other endpoints, a 2xx payload whose data container is
\* absent (MRData, the table or the list), or, for standings, whose
\* StandingsLists is empty, is answered 404 with an error field.
C8_AbsentContainerIs404 ==
    (/\ InRequest /\ endpoint # "calendar" /\ pc = "done"
     /\ ergastData.parsed
     /\ \/ ~ergastData.MRData \/ ~ergastData.Table \/ ~ergastData.hasList
        \/ /\ endpoint \in {"driverStandings", "constructorStandings"}
           /\ Len(ergastData.List) = 0)
      => (res.status = 404 /\ HasError)

----------------------------------------------------------------------------
(* C9 *)

\* C9: whenever a request arrives, also after the calendar year has advanced,
\* the upper bound validateYear applies is the calendar year of that moment
\* plus one.
C9_MaxYearFollowsClock ==
    [][(\E e \in Endpoints, token \in RequestTokens : Receive(e, token))
          => F1_MAX_YEAR = now + 1]_vars

----------------------------------------------------------------------------
(* C10 *)

\* C10: in a calendar request fetch is called at most once on the mandatory and
\* at most once on the optional source, the mandatory one first, and the
\* optional one only once the mandatory one has answered 2xx and is no longer
\* outstanding.
C10_FetchesSequentialOnce ==
    endpoint = "calendar" =>
        /\ MandatoryCalls <= 1
        /\ OptionalCalls <= 1
        /\ OptionalCalls = 1 =>
              /\ Len(fetchLog) = 2 /\ IsErgast(fetchLog[1]) /\ IsOpenF1(fetchLog[2])
              /\ ok(ergastResponse)
              /\ ergastData.parsed
              /\ pc \notin {"awaitErgastFetch", "awaitErgastJson"}
        /\ pc \in {"awaitErgastFetch", "awaitErgastJson"} => fetchLog = <<ErgastUrl(endpoint, year)>>
        /\ (validation.valid /\ (~ok(ergastResponse) \/ ~ergastData.parsed))
              => fetchLog = <<ErgastUrl(endpoint, year)>>

\* both fetches were made, and the optional one then failed
C10_Witness ==
    /\ endpoint = "calendar"
    /\ pc = "done"
    /\ MandatoryCalls = 1
    /\ OptionalCalls = 1
    /\ OptionalNon2xx

====
